---- MODULE Spec2Model ----
(***************************************************************************)
(* PNG Memo Generator (src/main.ts): the plugin's settings store, the      *)
(* settings form, and the generate command with its asynchronous           *)
(* rasterize / exists / mkdir / writeBinary pipeline.                      *)
(*                                                                         *)
(* Every await of the source is a suspension point.  An asynchronous host  *)
(* operation is two steps: the host performs it (its effect on the vault   *)
(* or its reading of the vault), and later the promise settles and the     *)
(* continuation of the source runs.  A continuation runs up to the next    *)
(* await as one step (JavaScript runs to completion).                      *)
(***************************************************************************)
EXTENDS Integers, Sequences, FiniteSets, TLC

\* ------------------------------------------------------------ bounds
MaxInv == 2            \* command invocations in the generation specification
MaxClock == 1          \* Date.now() takes the values 0..MaxClock
MaxChanges == 2        \* settings-form changes in the save specification
MaxFormInv == 1        \* command invocations in the form specification
MaxFormChanges == 1    \* settings-form changes in the form specification

Inv == 1..(IF MaxInv > MaxFormInv THEN MaxInv ELSE MaxFormInv)

\* ------------------------------------------------------------ data
Keys == {"width", "minHeight", "backgroundColor", "textColor", "fontSize",
         "fontFamily", "useLinearGradient", "linearGradient"}

DEFAULT_SETTINGS ==
  [width |-> "800px", minHeight |-> "200px", backgroundColor |-> "#333333",
   textColor |-> "#ffffff", fontSize |-> "32px",
   fontFamily |-> "Arial, sans-serif", useLinearGradient |-> TRUE,
   linearGradient |->
     "linear-gradient(90deg, rgba(215,199,25,0.9317926999901524) 9%, rgba(62,253,29,1) 40%, rgba(252,73,69,1) 100%)"]

\* this.settings before loadSettings has assigned it
Undefined == [k \in {} |-> ""]

\* what loadData() can resolve to: null (no data.json) or a JSON object
NoData == [has |-> FALSE, data |-> Undefined]
Blob(d) == [has |-> TRUE, data |-> d]

\* the values a user can type into a field of the form, or that data.json holds
FieldValues(k) ==
  IF k = "useLinearGradient" THEN {TRUE, FALSE} ELSE {DEFAULT_SETTINGS[k], "x"}

\* the JSON objects data.json can hold: each field of the record absent or
\* holding one of two values, and a field of another schema absent or present
BlobKeys == Keys \cup {"extra"}
BlobValue(k, n) ==
  IF k = "useLinearGradient" THEN n = 1
  ELSE IF k = "extra" THEN "future"
  ELSE IF n = 1 THEN "x" ELSE "y"
BlobOf(c) == Blob([k \in {q \in BlobKeys : c[q] # 0} |-> BlobValue(k, c[k])])
Blobs == {NoData} \cup {BlobOf(c) : c \in [BlobKeys -> 0..2]}

\* a record saved by an earlier session: solid background chosen
SavedEarlier ==
  Blob([DEFAULT_SETTINGS EXCEPT !["useLinearGradient"] = FALSE,
                                !["backgroundColor"] = "x"])

\* the selections of the editor; "" is the empty selection
Texts == {"Hello", "World"}
\* the message of the error the adapter rejects with
Errors == {"EACCES"}

VARIABLES
  persisted,    \* the plugin's data slot (data.json)
  settings,     \* this.settings
  onloadPc,     \* position of onload: "init", "loading", "done", "failed"
  registered,   \* addCommand and addSettingTab have run
  saves,        \* the records of the saveData calls in flight, in call order
  nChanges,     \* the form changes handled so far
  saveFailed,   \* a saveData call has rejected
  clock,        \* Date.now() as last read
  dirs,         \* the directories of the vault
  files,        \* the files of the vault: path -> content
  req,          \* per invocation: what the workspace returned
  pc,           \* per invocation: position in generatePngMemo and its callbacks
  div,          \* per invocation: the element created (style, innerText)
  body,         \* the invocations whose element is a child of document.body
  job,          \* per invocation: the locals of the html2canvas callback
  notices,      \* per invocation: the Notices constructed, in order
  calls         \* per invocation: the adapter calls issued, in order

vars == <<persisted, settings, onloadPc, registered, saves, nChanges,
          saveFailed, clock, dirs, files,
          req, pc, div, body, job, notices, calls>>

storeVars == <<persisted, settings, onloadPc, registered, saves, nChanges,
               saveFailed>>
genVars == <<clock, dirs, files, req, pc, div, body, job, notices, calls>>

\* ------------------------------------------------------------ pure helpers

\* mutant: the properties the target already has are kept
Assign_TargetWins(target, source) ==
  [k \in DOMAIN target \cup DOMAIN source |->
     IF k \in DOMAIN target THEN target[k] ELSE source[k]]

\* Object.assign(target, source): own properties of source overwrite target's
Assign(target, source) ==
  [k \in DOMAIN target \cup DOMAIN source |->
     IF k \in DOMAIN source THEN source[k] ELSE target[k]]

\* Object.assign skips a null source
AssignLoaded(target, loaded) ==
  IF loaded.has THEN Assign(target, loaded.data) ELSE target

\* loadSettings: Object.assign({}, DEFAULT_SETTINGS, await this.loadData())
MergeSettings(loaded) ==
  AssignLoaded(Assign(Undefined, DEFAULT_SETTINGS), loaded)

\* mutant: the two branches of the background conditional exchanged
Styles_Swapped(s) ==
  [width |-> s["width"],
   minHeight |-> s["minHeight"],
   background |-> IF s["useLinearGradient"] THEN s["backgroundColor"]
                  ELSE s["linearGradient"],
   color |-> s["textColor"],
   display |-> "flex",
   alignItems |-> "center",
   justifyContent |-> "center",
   textAlign |-> "center",
   fontSize |-> s["fontSize"],
   fontFamily |-> s["fontFamily"]]

\* the styles object of createPngFromText
Styles(s) ==
  [width |-> s["width"],
   minHeight |-> s["minHeight"],
   background |-> IF s["useLinearGradient"] THEN s["linearGradient"]
                  ELSE s["backgroundColor"],
   color |-> s["textColor"],
   display |-> "flex",
   alignItems |-> "center",
   justifyContent |-> "center",
   textAlign |-> "center",
   fontSize |-> s["fontSize"],
   fontFamily |-> s["fontFamily"]]

\* html2canvas(div): the bitmap is what the element shows
Rasterize(d) == <<"canvas", d.style, d.innerText>>
\* canvas.toDataURL("image/png"): header, comma, base64 of the PNG stream
ToDataURL(canvas) == <<"data:image/png;base64", <<"b64", <<"png", canvas>> >> >>
\* dataUrl.split(",")[1]
Base64Part(dataUrl) == dataUrl[2]
\* Buffer.from(base64Data, "base64")
BufferFrom(b64) == b64[2]

\* mutant: a file name without the timestamp
FileName_NoTimestamp(now) == <<"memo-", 0, ".png">>

\* `memo-${Date.now()}.png`
FileName(now) == <<"memo-", now, ".png">>
\* normalizePath(`memos/${fileName}`): the path as its segments
FilePath(fileName) == <<"memos", fileName>>
\* normalizedPath.split("/").slice(0, -1).join("/")
DirOf(path) == SubSeq(path, 1, Len(path) - 1)

SavedNotice(path) == <<"PNG memo saved to ", path>>
FailedNotice(msg) == <<"Failed to save PNG: ", msg>>
NoViewNotice == <<"No active Markdown view found">>
NoTextNotice == <<"No text selected">>

NoDiv == [style |-> Undefined, innerText |-> ""]
NoJob == [now |-> -1, filePath |-> <<>>, buffer |-> <<>>, dirExists |-> FALSE,
          error |-> ""]
NoReq == [view |-> "idle", selection |-> "", overlaps |-> {}]

\* the positions of an invocation between its html2canvas call and the
\* adapter's write
InFlight == {"raster", "exists", "existsRead", "mkdir", "mkdirDone", "write"}

\* an adapter call as issued: the operation, its path and, for mkdir,
\* whether the directory is in the vault at the moment of the call
Call(op, path, dir) ==
  [op |-> op, path |-> path, dirPresent |-> op = "mkdir" /\ dir \in dirs]

\* ------------------------------------------------------------ initial states
InitWith(blobs, dirSets) ==
  /\ persisted \in blobs
  /\ settings = Undefined
  /\ onloadPc = "init"
  /\ registered = FALSE
  /\ saves = <<>>
  /\ nChanges = 0
  /\ saveFailed = FALSE
  /\ clock = 0
  /\ dirs \in dirSets
  /\ files = Undefined
  /\ req = [i \in Inv |-> NoReq]
  /\ pc = [i \in Inv |-> "idle"]
  /\ div = [i \in Inv |-> NoDiv]
  /\ body = {}
  /\ job = [i \in Inv |-> NoJob]
  /\ notices = [i \in Inv |-> <<>>]
  /\ calls = [i \in Inv |-> <<>>]

\* ------------------------------------------------------------ onload
\* mutant: the command and the tab registered before loadSettings is awaited
OnloadStart_RegisterFirst ==
  /\ onloadPc = "init"
  /\ onloadPc' = "loading"
  /\ registered' = TRUE
  /\ UNCHANGED <<persisted, settings, saves, nChanges, saveFailed>>
  /\ UNCHANGED genVars

\* onload up to the await of loadData()
OnloadStart ==
  /\ onloadPc = "init"
  /\ onloadPc' = "loading"
  /\ UNCHANGED <<persisted, settings, registered, saves, nChanges, saveFailed>>
  /\ UNCHANGED genVars

\* loadData() resolves: loadSettings assigns this.settings, then onload
\* registers the command and the settings tab
LoadResolve ==
  /\ onloadPc = "loading"
  /\ settings' = MergeSettings(persisted)
  /\ registered' = TRUE
  /\ onloadPc' = "done"
  /\ UNCHANGED <<persisted, saves, nChanges, saveFailed>>
  /\ UNCHANGED genVars

\* loadData() rejects: onload rejects at its first await
LoadReject ==
  /\ onloadPc = "loading"
  /\ onloadPc' = "failed"
  /\ UNCHANGED <<persisted, settings, registered, saves, nChanges, saveFailed>>
  /\ UNCHANGED genVars

\* ------------------------------------------------------------ settings form
\* one onChange handler of display(): assign the field, then saveSettings(),
\* which hands the record to saveData.  The host calls the handler when the
\* field's value changes.
OnChange(k, v) ==
  /\ registered
  /\ v # settings[k]
  /\ settings' = [settings EXCEPT ![k] = v]
  /\ saves' = Append(saves, settings')
  /\ nChanges' = nChanges + 1
  /\ UNCHANGED <<persisted, onloadPc, registered, saveFailed>>
  /\ UNCHANGED genVars

\* the sequence q without its n-th element
Without(q, n) == SubSeq(q, 1, n - 1) \o SubSeq(q, n + 1, Len(q))

\* a saveData call completes: the data slot holds the record it was given
SaveResolve(n) ==
  /\ n \in DOMAIN saves
  /\ persisted' = Blob(saves[n])
  /\ saves' = Without(saves, n)
  /\ UNCHANGED <<settings, onloadPc, registered, nChanges, saveFailed>>
  /\ UNCHANGED genVars

\* a saveData call rejects: the data slot is left as it was
SaveReject(n) ==
  /\ n \in DOMAIN saves
  /\ saves' = Without(saves, n)
  /\ saveFailed' = TRUE
  /\ UNCHANGED <<persisted, settings, onloadPc, registered, nChanges>>
  /\ UNCHANGED genVars

\* ------------------------------------------------------------ generate command
\* createPngFromText up to the html2canvas call
CreatePngFromText(i, text) ==
  /\ div' = [div EXCEPT ![i] = [style |-> Styles(settings), innerText |-> text]]
  /\ body' = body \cup {i}
  /\ pc' = [pc EXCEPT ![i] = "raster"]
  /\ UNCHANGED notices

\* mutant: the selection is not tested before createPngFromText
GeneratePngMemo_NoSelectionCheck(i, view, selection) ==
  /\ registered
  /\ pc[i] = "idle"
  /\ \A j \in Inv : j < i => pc[j] # "idle"
  /\ req' = [req EXCEPT ![i] = [view |-> view, selection |-> selection,
                                overlaps |-> {j \in Inv : pc[j] \in InFlight}]]
  /\ IF view = "none"
     THEN /\ notices' = [notices EXCEPT ![i] = Append(@, NoViewNotice)]
          /\ pc' = [pc EXCEPT ![i] = "aborted"]
          /\ UNCHANGED <<div, body>>
     ELSE CreatePngFromText(i, selection)
  /\ UNCHANGED <<clock, dirs, files, job, calls>>
  /\ UNCHANGED storeVars

\* the command callback: generatePngMemo with what the workspace returns
GeneratePngMemo(i, view, selection) ==
  /\ registered
  /\ pc[i] = "idle"
  /\ \A j \in Inv : j < i => pc[j] # "idle"
  /\ req' = [req EXCEPT ![i] = [view |-> view, selection |-> selection,
                                overlaps |-> {j \in Inv : pc[j] \in InFlight}]]
  /\ IF view = "none"
     THEN /\ notices' = [notices EXCEPT ![i] = Append(@, NoViewNotice)]
          /\ pc' = [pc EXCEPT ![i] = "aborted"]
          /\ UNCHANGED <<div, body>>
     ELSE IF selection # ""
          THEN CreatePngFromText(i, selection)
          ELSE /\ notices' = [notices EXCEPT ![i] = Append(@, NoTextNotice)]
               /\ pc' = [pc EXCEPT ![i] = "aborted"]
               /\ UNCHANGED <<div, body>>
  /\ UNCHANGED <<clock, dirs, files, job, calls>>
  /\ UNCHANGED storeVars

\* what the workspace can return: no Markdown view, or a view and its selection
Requests == {<<"none", "">>} \cup {<<"markdown", t>> : t \in Texts \cup {""}}

\* the rest of the html2canvas callback once savePngToVault has returned:
\* the success Notice and removeChild
AfterSave(i, ns) ==
  /\ notices' = [notices EXCEPT ![i] = Append(ns, SavedNotice(job[i].filePath))]
  /\ body' = body \ {i}
  /\ pc' = [pc EXCEPT ![i] = "done"]

\* the catch block of savePngToVault, then the caller's continuation
Catch(i, msg) ==
  /\ job' = [job EXCEPT ![i].error = msg]
  /\ AfterSave(i, Append(notices[i], FailedNotice(msg)))
  /\ UNCHANGED <<clock, dirs, files, req, div, calls>>
  /\ UNCHANGED storeVars

\* mutant: savePngToVault not awaited, the success Notice follows its call
RasterResolve_NoAwait(i) ==
  /\ pc[i] = "raster"
  /\ \E now \in clock..MaxClock :
       LET buffer == BufferFrom(Base64Part(ToDataURL(Rasterize(div[i]))))
           filePath == FilePath(FileName(now))
       IN /\ clock' = now
          /\ job' = [job EXCEPT ![i] = [now |-> now, filePath |-> filePath,
                                        buffer |-> buffer, dirExists |-> FALSE,
                                        error |-> ""]]
          /\ calls' = [calls EXCEPT ![i] =
                         Append(@, Call("exists", DirOf(filePath), DirOf(filePath)))]
          /\ notices' = [notices EXCEPT ![i] = Append(@, SavedNotice(filePath))]
  /\ pc' = [pc EXCEPT ![i] = "exists"]
  /\ UNCHANGED <<dirs, files, req, div, body>>
  /\ UNCHANGED storeVars

\* html2canvas resolves: encode, name the file after Date.now(), enter
\* savePngToVault up to the await of adapter.exists(dir).  Date.now() is at
\* least the value it had when last read.
RasterResolve(i) ==
  /\ pc[i] = "raster"
  /\ \E now \in clock..MaxClock :
       LET buffer == BufferFrom(Base64Part(ToDataURL(Rasterize(div[i]))))
           filePath == FilePath(FileName(now))
       IN /\ clock' = now
          /\ job' = [job EXCEPT ![i] = [now |-> now, filePath |-> filePath,
                                        buffer |-> buffer, dirExists |-> FALSE,
                                        error |-> ""]]
          /\ calls' = [calls EXCEPT ![i] =
                         Append(@, Call("exists", DirOf(filePath), DirOf(filePath)))]
  /\ pc' = [pc EXCEPT ![i] = "exists"]
  /\ UNCHANGED <<dirs, files, req, div, body, notices>>
  /\ UNCHANGED storeVars

\* html2canvas rejects: the promise chain has no rejection handler
RasterReject(i) ==
  /\ pc[i] = "raster"
  /\ pc' = [pc EXCEPT ![i] = "rejected"]
  /\ UNCHANGED <<clock, dirs, files, req, div, body, job, notices, calls>>
  /\ UNCHANGED storeVars

\* the adapter looks the directory up
ExistsRead(i) ==
  /\ pc[i] = "exists"
  /\ job' = [job EXCEPT ![i].dirExists = DirOf(job[i].filePath) \in dirs]
  /\ pc' = [pc EXCEPT ![i] = "existsRead"]
  /\ UNCHANGED <<clock, dirs, files, req, div, body, notices, calls>>
  /\ UNCHANGED storeVars

\* exists resolves: mkdir when it answered false, else writeBinary
ExistsResolve(i) ==
  /\ pc[i] = "existsRead"
  /\ LET path == job[i].filePath
         dir == DirOf(path)
     IN IF ~job[i].dirExists
        THEN /\ calls' = [calls EXCEPT ![i] = Append(@, Call("mkdir", dir, dir))]
             /\ pc' = [pc EXCEPT ![i] = "mkdir"]
        ELSE /\ calls' = [calls EXCEPT ![i] = Append(@, Call("writeBinary", path, dir))]
             /\ pc' = [pc EXCEPT ![i] = "write"]
  /\ UNCHANGED <<clock, dirs, files, req, div, body, job, notices>>
  /\ UNCHANGED storeVars

ExistsReject(i, msg) ==
  /\ pc[i] = "exists"
  /\ Catch(i, msg)

\* the adapter creates the directory
MkdirEffect(i) ==
  /\ pc[i] = "mkdir"
  /\ dirs' = dirs \cup {DirOf(job[i].filePath)}
  /\ pc' = [pc EXCEPT ![i] = "mkdirDone"]
  /\ UNCHANGED <<clock, files, req, div, body, job, notices, calls>>
  /\ UNCHANGED storeVars

\* mkdir resolves: writeBinary is called
MkdirResolve(i) ==
  /\ pc[i] = "mkdirDone"
  /\ LET path == job[i].filePath
     IN calls' = [calls EXCEPT ![i] = Append(@, Call("writeBinary", path, DirOf(path)))]
  /\ pc' = [pc EXCEPT ![i] = "write"]
  /\ UNCHANGED <<clock, dirs, files, req, div, body, job, notices>>
  /\ UNCHANGED storeVars

MkdirReject(i, msg) ==
  /\ pc[i] = "mkdir"
  /\ Catch(i, msg)

\* the adapter writes the file, replacing a file of that path
WriteEffect(i) ==
  /\ pc[i] = "write"
  /\ files' = (job[i].filePath :> job[i].buffer) @@ files
  /\ pc' = [pc EXCEPT ![i] = "writeDone"]
  /\ UNCHANGED <<clock, dirs, req, div, body, job, notices, calls>>
  /\ UNCHANGED storeVars

\* writeBinary resolves: savePngToVault returns, the caller continues
WriteResolve(i) ==
  /\ pc[i] = "writeDone"
  /\ AfterSave(i, notices[i])
  /\ UNCHANGED <<clock, dirs, files, req, div, job, calls>>
  /\ UNCHANGED storeVars

WriteReject(i, msg) ==
  /\ pc[i] = "write"
  /\ Catch(i, msg)

\* ------------------------------------------------------------ specifications
Onload == OnloadStart \/ LoadResolve \/ LoadReject

\* the callbacks of an invocation whose host operations succeed, and the
\* unhandled rejection of html2canvas
Continue(i) ==
  \/ RasterResolve(i)
  \/ RasterReject(i)
  \/ ExistsRead(i)
  \/ ExistsResolve(i)
  \/ MkdirEffect(i)
  \/ MkdirResolve(i)
  \/ WriteEffect(i)
  \/ WriteResolve(i)

\* an adapter operation rejects
Fail(i) ==
  \E msg \in Errors :
    ExistsReject(i, msg) \/ MkdirReject(i, msg) \/ WriteReject(i, msg)

\* the generate command on a fresh install, memos/ absent or present
Init == InitWith({NoData}, {{}, {<<"memos">>}})

Next ==
  \/ Onload
  \/ \E i \in 1..MaxInv : \E r \in Requests : GeneratePngMemo(i, r[1], r[2])
  \/ \E i \in Inv : Continue(i) \/ Fail(i)

Spec == Init /\ [][Next]_vars

\* the settings store alone, over every data.json
InitLoad == InitWith(Blobs, {{}})

NextLoad == Onload

SpecLoad == InitLoad /\ [][NextLoad]_vars

\* the settings form and its saves
InitSave == InitWith({NoData, SavedEarlier}, {{}})

Change(maxChanges) ==
  /\ nChanges < maxChanges
  /\ \E k \in Keys : \E v \in FieldValues(k) : OnChange(k, v)

NextSave ==
  \/ Onload
  \/ Change(MaxChanges)
  \/ \E n \in DOMAIN saves : SaveResolve(n) \/ SaveReject(n)

SpecSave == InitSave /\ [][NextSave]_vars

\* the settings form next to the generate command, memos/ absent at first;
\* the adapter's operations and saveData succeed here (their failures are
\* in Spec and SpecSave)
InitForm == InitWith({NoData}, {{}})

FormRequests == {<<"none", "">>, <<"markdown", "Hello">>}

NextForm ==
  \/ Onload
  \/ \E i \in 1..MaxFormInv : \E r \in FormRequests : GeneratePngMemo(i, r[1], r[2])
  \/ \E i \in Inv : Continue(i)
  \/ Change(MaxFormChanges)
  \/ \E n \in DOMAIN saves : SaveResolve(n)

SpecForm == InitForm /\ [][NextForm]_vars

\* ------------------------------------------------------------ claims
Finished(i) == pc[i] \in {"idle", "aborted", "done", "rejected"}
\* the invocation's writeBinary has taken effect and nothing was caught
Wrote(i) == pc[i] \in {"writeDone", "done"} /\ job[i].error = ""
WriteCalls(i) == {n \in DOMAIN calls[i] : calls[i][n].op = "writeBinary"}

\* C1: once every started invocation has finished, successfully or not, no
\* element inserted by any invocation remains in the render tree.
C1_ElementRemovedOnEveryPath ==
  (\A i \in Inv : Finished(i)) => body = {}

\* C2: an invocation whose mkdir or writeBinary failed ends with exactly one
\* notice, the failure notice carrying the error's message, and no success
\* notice.
C2_SingleFailureNotice ==
  \A i \in Inv :
    (/\ pc[i] = "done"
     /\ job[i].error # ""
     /\ calls[i][Len(calls[i])].op \in {"mkdir", "writeBinary"})
    => /\ notices[i] = <<FailedNotice(job[i].error)>>
       /\ \A n \in DOMAIN notices[i] : notices[i][n] # SavedNotice(job[i].filePath)

\* C3: an invocation with no active Markdown view, or with a view whose
\* selection is empty, is aborted before any rendering: no element, no
\* rasterization, no adapter call, exactly one notice.
C3_AbortBeforeRendering ==
  \A i \in Inv :
    (req[i].view = "none" \/ (req[i].view = "markdown" /\ req[i].selection = ""))
    => /\ pc[i] = "aborted"
       /\ i \notin body
       /\ div[i] = NoDiv
       /\ job[i] = NoJob
       /\ calls[i] = <<>>
       /\ Len(notices[i]) = 1

C3_Witness ==
  /\ \E i \in Inv : req[i].view = "none" /\ pc[i] = "aborted"
  /\ \E i \in Inv : req[i].view = "markdown" /\ req[i].selection = ""
                    /\ pc[i] = "aborted"

\* two invocations with different text, the later one started before the
\* earlier one's write took effect, both written
RapidPair(i, j) ==
  /\ i # j
  /\ i \in req[j].overlaps
  /\ Wrote(i) /\ Wrote(j)
  /\ div[i].innerText # div[j].innerText

OwnContent(i) ==
  /\ job[i].filePath \in DOMAIN files
  /\ files[job[i].filePath] = job[i].buffer

\* no other invocation's callback read the same Date.now() value
AloneInItsMillisecond(i) ==
  \A k \in Inv \ {i} : job[k].now # job[i].now

\* C4 as stated: two rapid invocations with different text produce two
\* distinct files, each holding exactly its own invocation's buffer.
C4_DistinctFiles ==
  \A i, j \in Inv :
    RapidPair(i, j)
    => /\ job[i].filePath # job[j].filePath
       /\ OwnContent(i)
       /\ OwnContent(j)

\* C4 amended: two rapid invocations with different text whose callbacks
\* read different Date.now() values produce two distinct files, and each
\* file holds its own invocation's buffer when no other invocation read the
\* same value.
C4_DistinctFilesWhenTimestampsDiffer ==
  \A i, j \in Inv :
    (RapidPair(i, j) /\ job[i].now # job[j].now)
    => /\ job[i].filePath # job[j].filePath
       /\ AloneInItsMillisecond(i) => OwnContent(i)
       /\ AloneInItsMillisecond(j) => OwnContent(j)

C4_Witness ==
  \E i, j \in Inv :
    /\ RapidPair(i, j)
    /\ job[i].now # job[j].now
    /\ pc[i] = "done" /\ pc[j] = "done"
    /\ job[i].buffer # job[j].buffer

\* C5: mkdir is called before writeBinary when exists answered that memos/
\* is absent, and no mkdir call is made while memos/ is present, in every
\* invocation of every interleaving.
C5_MkdirOnlyWhenAbsent ==
  \A i \in Inv :
    \A n \in DOMAIN calls[i] :
      /\ calls[i][n].op = "mkdir" => ~calls[i][n].dirPresent
      /\ (calls[i][n].op = "writeBinary" /\ ~job[i].dirExists)
         => \E m \in 1..(n - 1) : calls[i][m].op = "mkdir"

\* C6: an invocation that succeeds made exactly one writeBinary call, to
\* memos/memo-<digits>.png, and its only notice is the success notice naming
\* that path; no notice exists before the write has taken effect.
C6_OneWriteOneNotice ==
  \A i \in Inv :
    /\ (pc[i] = "done" /\ job[i].error = "")
       => /\ Cardinality(WriteCalls(i)) = 1
          /\ \A n \in WriteCalls(i) :
               /\ calls[i][n].path = job[i].filePath
               /\ Len(calls[i][n].path) = 2
               /\ calls[i][n].path[1] = "memos"
               /\ calls[i][n].path[2][1] = "memo-"
               /\ calls[i][n].path[2][2] \in Nat
               /\ calls[i][n].path[2][3] = ".png"
          /\ notices[i] = <<SavedNotice(job[i].filePath)>>
          /\ job[i].filePath \in DOMAIN files
    /\ pc[i] \in InFlight => notices[i] = <<>>
    /\ (pc[i] = "writeDone")
       => notices[i] = <<>> /\ job[i].filePath \in DOMAIN files

C6_Witness ==
  \E i \in Inv :
    /\ pc[i] = "done" /\ job[i].error = ""
    /\ req[i].selection = "Hello"
    /\ files[job[i].filePath] = job[i].buffer

StoreLoaded == settings # Undefined

\* C7: every form change has triggered a save of the entire record, and once
\* all triggered saves have completed the data slot equals this.settings.
C7_PersistedEqualsSettings ==
  /\ Len(saves) <= nChanges
  /\ \A n \in DOMAIN saves : Keys \subseteq DOMAIN saves[n]
  /\ (nChanges > 0 /\ saves = <<>> /\ ~saveFailed) => persisted = Blob(settings)

\* C8: the loaded record holds, for each of the eight fields, the persisted
\* value when data.json has the field and the default otherwise; fields of
\* data.json outside the record are retained; loading again, from the same
\* data.json or from the loaded record, yields the same record.
C8_ShallowMerge ==
  onloadPc = "done"
  => /\ \A k \in Keys :
          settings[k] = IF persisted.has /\ k \in DOMAIN persisted.data
                        THEN persisted.data[k]
                        ELSE DEFAULT_SETTINGS[k]
     /\ DOMAIN settings =
          Keys \cup (IF persisted.has THEN DOMAIN persisted.data ELSE {})
     /\ \A k \in DOMAIN settings \ Keys : settings[k] = persisted.data[k]
     /\ MergeSettings(persisted) = settings
     /\ MergeSettings(Blob(settings)) = settings

C8_Witness ==
  /\ onloadPc = "done"
  /\ persisted.has
  /\ "extra" \in DOMAIN persisted.data
  /\ "width" \notin DOMAIN persisted.data
  /\ "fontSize" \in DOMAIN persisted.data
  /\ settings["fontSize"] # DEFAULT_SETTINGS["fontSize"]
  /\ settings["width"] = DEFAULT_SETTINGS["width"]

\* C9: the style given to the card element when createPngFromText is invoked
\* has background = linearGradient if useLinearGradient, else backgroundColor,
\* and the other five properties equal to the record's values; no later step,
\* a settings change included, alters the style of an element.
C9_StyleFromRecord ==
  [][\A i \in Inv :
       pc'[i] \notin {"idle", "aborted"}
       => IF pc[i] = "idle"
          THEN /\ div'[i].style["background"] =
                    IF settings["useLinearGradient"]
                    THEN settings["linearGradient"]
                    ELSE settings["backgroundColor"]
               /\ div'[i].style["width"] = settings["width"]
               /\ div'[i].style["minHeight"] = settings["minHeight"]
               /\ div'[i].style["color"] = settings["textColor"]
               /\ div'[i].style["fontSize"] = settings["fontSize"]
               /\ div'[i].style["fontFamily"] = settings["fontFamily"]
          ELSE div'[i].style = div[i].style]_vars

C9_Witness ==
  \E i \in Inv :
    /\ i \in body
    /\ ~settings["useLinearGradient"]
    /\ div[i].style["background"] = DEFAULT_SETTINGS["linearGradient"]
    /\ div[i].style["background"] # Styles(settings)["background"]

\* C10: the store is unloaded until onload's loadSettings has completed and
\* loaded ever after; saves leave it loaded; the command and the form are
\* registered, and so run, only once it is loaded.
C10_LoadedBeforeUse ==
  /\ StoreLoaded <=> onloadPc = "done"
  /\ StoreLoaded => Keys \subseteq DOMAIN settings
  /\ registered => StoreLoaded
  /\ ((\E i \in Inv : pc[i] # "idle") \/ nChanges > 0) => StoreLoaded

C10_Witness ==
  /\ StoreLoaded
  /\ nChanges > 0 /\ saves = <<>> /\ persisted = Blob(settings)
  /\ \E i \in Inv : pc[i] = "done"

====
